---------------------------- MODULE Spec2Model ----------------------------
(***************************************************************************)
(* A model of the Echo voice assistant (echo.py): the EchoAI object, its   *)
(* speech wrapper speak, the two-phase wake-word listen, the keyword       *)
(* dispatch of process_command with its handlers, and the run loop.        *)
(*                                                                         *)
(* Text is a sequence of one-character strings, so that "in", lower,       *)
(* strip and replace are computed on characters as Python computes them.   *)
(* A string literal of the program that is only spoken (never searched)    *)
(* is one element of such a sequence.                                      *)
(***************************************************************************)
EXTENDS Integers, Sequences, FiniteSets, TLC

(***************************************************************************)
(* Bounds of the model.                                                    *)
(***************************************************************************)
\* Config.max_history of the modelled configuration file (the default is 100).
max_history == 2
\* The environment stops saying the wake word / calling once the clock is here.
MaxClock == 4
\* The environment raises at most this many logged faults.
MaxLog == 1

(***************************************************************************)
(* Python string operations, on sequences of characters.                   *)
(***************************************************************************)
\* One character of str.lower().
LowerChar(c) ==
    CASE c = "E" -> "e"
      [] c = "S" -> "s"
      [] c = "F" -> "f"
      [] c = "C" -> "c"
      [] OTHER -> c

\* str.lower()
Lower(s) == [i \in 1..Len(s) |-> LowerChar(s[i])]

\* The characters str.strip() removes.
IsSpace(c) == c \in {" ", "\t", "\n"}

RECURSIVE LStrip(_)
LStrip(s) == IF s # <<>> /\ IsSpace(Head(s)) THEN LStrip(Tail(s)) ELSE s

RECURSIVE RStrip(_)
RStrip(s) ==
    IF s # <<>> /\ IsSpace(s[Len(s)]) THEN RStrip(SubSeq(s, 1, Len(s) - 1)) ELSE s

\* str.strip()
Strip(s) == RStrip(LStrip(s))

\* s[i:i+len(sub)] == sub, i counted from 1
MatchAt(s, sub, i) ==
    /\ i + Len(sub) - 1 <= Len(s)
    /\ SubSeq(s, i, i + Len(sub) - 1) = sub

\* sub in s
Contains(s, sub) == \E i \in 1..(Len(s) + 1) : MatchAt(s, sub, i)

\* s.replace(old, ""): the non-overlapping occurrences of old, left to right
RECURSIVE Remove(_, _)
Remove(s, old) ==
    IF s = <<>> \/ old = <<>> THEN s
    ELSE IF MatchAt(s, old, 1) THEN Remove(SubSeq(s, Len(old) + 1, Len(s)), old)
    ELSE <<Head(s)>> \o Remove(Tail(s), old)

\* bool(s) of a str
Truthy(s) == s # <<>>

\* Optional[str]: None, or a string
None == <<>>
Some(s) == <<s>>

(***************************************************************************)
(* The configuration (Config defaults) and the program's string literals.  *)
(***************************************************************************)
\* A literal that is only spoken or logged: one element.
Lit(s) == <<s>>

\* Config.speech_rate
speech_rate == 170
\* the rate offset of an emotion
RateDelta == 20
\* volumes, in tenths: 0.9 neutral, 1.0 happy, 0.8 sad
VolumeNeutral == 9
VolumeHappy == 10
VolumeSad == 8

\* Config.hotword: "echo"
hotword == <<"e", "c", "h", "o">>
\* Config.name
name == Lit("User")
\* Config.wake_responses
wake_responses == {Lit("Yes?"), Lit("I'm here!"), Lit("How can I assist?")}

w_search == <<"s", "e", "a", "r", "c", "h">>
w_for == <<"f", "o", "r">>
w_time == <<"t", "i", "m", "e">>
w_weather == <<"w", "e", "a", "t", "h", "e", "r">>
w_in == <<"i", "n">>
w_open == <<"o", "p", "e", "n">>
w_exit == <<"e", "x", "i", "t">>
w_quit == <<"q", "u", "i", "t">>
w_goodbye == <<"g", "o", "o", "d", "b", "y", "e">>
w_browser == <<"b", "r", "o", "w", "s", "e", "r">>
w_notepad == <<"n", "o", "t", "e", "p", "a", "d">>
w_cats == <<"c", "a", "t", "s">>
w_rio == <<"r", "i", "o">>

\* two words with a space between them
Join(a, b) == a \o <<" ">> \o b

w_search_for == Join(w_search, w_for)
w_weather_in == Join(w_weather, w_in)

\* the words process_command tests for "exit"
ExitWords == {w_exit, w_quit, w_goodbye}

(***************************************************************************)
(* What the recogniser may return: every keyword, every ordered pair of    *)
(* keywords, and utterances with arguments, upper case, the wake word, a   *)
(* keyword inside a longer word, no keyword, and empty or blank text.      *)
(***************************************************************************)
Keywords == {w_search, w_time, w_weather, w_open, w_exit, w_quit, w_goodbye}

Utterances ==
    Keywords
    \cup {Join(a, b) : a \in Keywords, b \in Keywords}
    \cup { hotword,
           <<"E", "c", "h", "o">>,
           Join(hotword, w_time),
           w_cats,
           w_search_for,
           Join(w_search_for, w_cats),
           <<"S", "e", "a", "r", "c", "h", " ", "F", "o", "r", " ", "C", "a", "t", "s">>,
           <<"r", "e">> \o w_search,
           Join(w_weather_in, w_rio),
           Join(w_open, w_browser),
           Join(w_open, w_notepad),
           <<>>,
           <<" ">> }

\* what the recogniser returns for the first capture of a listen call
Heard == {hotword, <<"E", "c", "h", "o">>, Join(hotword, w_time), w_cats}

\* what the recogniser returns for the second capture of a listen call
Spoken ==
    { w_search,
      <<"S", "e", "a", "r", "c", "h", " ", "F", "o", "r", " ", "C", "a", "t", "s">>,
      w_time,
      Join(w_weather_in, w_rio),
      Join(w_open, w_browser),
      Join(w_open, w_notepad),
      w_open,
      w_exit,
      w_cats,
      <<" ">>,
      <<>> }

\* the texts and emotions a direct caller of speak passes
ApiTexts == {Lit("hi")}
Emotions == {"none", "happy", "sad"}

(***************************************************************************)
(* State.                                                                  *)
(***************************************************************************)
VARIABLES
    running,          \* self.running
    history,          \* self.history
    rate,             \* the engine's 'rate' property
    volume,           \* the engine's 'volume' property, in tenths
    weather_api_key,  \* self.config.weather_api_key
    log,              \* the logger.error lines written
    clock,            \* datetime.now(), as a logical clock
    stack,            \* the coroutine call stack: one label per frame
    text,             \* listen's local text (the first transcript, lower-cased)
    command,          \* the value returned by listen (run's local command)
    cmd,              \* process_command's parameter command
    sp_text,          \* speak's parameter text
    sp_emotion,       \* speak's parameter emotion
    events            \* what the current listen or process_command call has done

vars == <<running, history, rate, volume, weather_api_key, log, clock, stack,
          text, command, cmd, sp_text, sp_emotion, events>>

\* the object's fields and the environment's records, without the control state
obj == <<running, history, rate, volume, weather_api_key, log, clock>>

Top == stack[Len(stack)]
Goto(l) == [stack EXCEPT ![Len(stack)] = l]
Call(ret, callee) == Append(Goto(ret), callee)
Return == SubSeq(stack, 1, Len(stack) - 1)

Event(e, a) == [ev |-> e, arg |-> a]

\* one entry of self.history
HistoryEntry(speaker, t, e) ==
    [timestamp |-> clock, speaker |-> speaker, text |-> t, emotion |-> e]

\* __init__: the engine's volume is the driver's default, 1.0
InitObject ==
    /\ running = TRUE
    /\ history = <<>>
    /\ rate = speech_rate
    /\ volume = VolumeHappy
    /\ weather_api_key \in {<<>>, Lit("KEY")}
    /\ log = <<>>
    /\ clock = 0
    /\ text = <<>>
    /\ command = None
    /\ cmd = <<>>
    /\ sp_text = <<>>
    /\ sp_emotion = "none"
    /\ events = <<>>

(***************************************************************************)
(* speak                                                                   *)
(***************************************************************************)
\* await self.speak(t, e): the caller's frame waits at ret
CallSpeak(ret, t, e, evs) ==
    /\ stack' = Call(ret, "speak")
    /\ sp_text' = t
    /\ sp_emotion' = e
    /\ events' = Append(evs, Event("speak", t))

\* the baseline read back from the engine instead of the configuration
EngineRate == rate

\* original_rate = self.config.speech_rate
original_rate == speech_rate

\* the oldest max_history entries kept instead of the newest
TrimHead(h) ==
    IF Len(h) > max_history THEN SubSeq(h, 1, max_history) ELSE h

\* self.history[-max_history:] when the history is longer than max_history
Trim(h) ==
    IF Len(h) > max_history THEN SubSeq(h, Len(h) - max_history + 1, Len(h)) ELSE h

\* lines 98-108: the rate and volume of this utterance
speak_prepare ==
    /\ Top = "speak"
    /\ rate' = CASE sp_emotion = "happy" -> original_rate + RateDelta
                 [] sp_emotion = "sad" -> original_rate - RateDelta
                 [] OTHER -> rate
    /\ volume' = CASE sp_emotion = "happy" -> VolumeHappy
                   [] sp_emotion = "sad" -> VolumeSad
                   [] OTHER -> VolumeNeutral
    /\ stack' = Goto("speak_say")
    /\ UNCHANGED <<running, history, weather_api_key, log, clock, text, command,
                   cmd, sp_text, sp_emotion, events>>

\* the history after speak's append, left untrimmed
SpeakHistoryUntrimmed == Append(history, HistoryEntry("assistant", sp_text, sp_emotion))

\* the history after speak's append and trim
SpeakHistory == Trim(Append(history, HistoryEntry("assistant", sp_text, sp_emotion)))

\* the engine's rate and volume when speak's try block has completed
SpeakReset == <<original_rate, VolumeNeutral>>

\* lines 109-124: say and runAndWait succeed; reset, append, trim, return
speak_say ==
    /\ Top = "speak_say"
    /\ rate' = SpeakReset[1]
    /\ volume' = SpeakReset[2]
    /\ history' = SpeakHistory
    /\ clock' = clock + 1
    /\ events' = Append(events, Event("spoke", Lit(sp_emotion)))
    /\ stack' = Return
    /\ sp_text' = <<>>
    /\ sp_emotion' = "none"
    /\ UNCHANGED <<running, weather_api_key, log, text, command, cmd>>

\* the append and trim done although the sink raised
AppendAfterFault == <<rate, volume, SpeakHistory>>

\* the state speak leaves when the sink raises: <<rate, volume, history>>
SpeakFaultState == <<rate, volume, history>>

\* lines 109-110, 126-127: say or runAndWait raises; logged, speak returns
speak_fault ==
    /\ Top = "speak_say"
    /\ Len(log) < MaxLog
    /\ log' = Append(log, "Speak error")
    /\ rate' = SpeakFaultState[1]
    /\ volume' = SpeakFaultState[2]
    /\ history' = SpeakFaultState[3]
    /\ events' = Append(events, Event("speak_fault", Lit(sp_emotion)))
    /\ stack' = Return
    /\ sp_text' = <<>>
    /\ sp_emotion' = "none"
    /\ UNCHANGED <<running, weather_api_key, clock, text, command, cmd>>

(***************************************************************************)
(* listen                                                                  *)
(***************************************************************************)
\* the exceptions of the recogniser that listen returns None for, silently
SilentFaults == {"WaitTimeoutError", "UnknownValueError"}
\* every exception the recogniser raises
ListenFaults == SilentFaults \cup {"RequestError"}

\* an exception leaves listen: the try of run's loop body catches it
Unwind(s) ==
    [s EXCEPT ![Len(s)] = "run_except"]

\* line 131: sr.Microphone() raises, outside listen's try
listen_mic_fault ==
    /\ Top = "listen"
    /\ Len(log) < MaxLog
    /\ stack' = Unwind(Return)
    /\ events' = Append(events, Event("mic_fault", <<>>))
    /\ UNCHANGED <<obj, text, command, cmd, sp_text, sp_emotion>>

\* lines 152-156: the except clauses of listen
ListenExcept(kind) ==
    /\ IF kind \in SilentFaults
       THEN log' = log
       ELSE /\ Len(log) < MaxLog
            /\ log' = Append(log, "Listen error")
    /\ command' = None
    /\ text' = <<>>
    /\ stack' = Return
    /\ events' = Append(events, Event("capture_fault", Lit(kind)))
    /\ UNCHANGED <<running, history, rate, volume, weather_api_key, clock, cmd,
                   sp_text, sp_emotion>>

\* lines 134-136 raise
listen_wake_fail ==
    /\ Top = "listen"
    /\ \E kind \in ListenFaults : ListenExcept(kind)

\* a gate that lets every transcript through
HeardAnything(t) == TRUE

\* if self.config.hotword in text
HeardHotword(t) == Contains(t, hotword)

\* lines 134-139, 150: the first capture and the wake-word gate
listen_wake ==
    /\ Top = "listen"
    /\ \E t \in Heard :
         LET heard == Append(events, Event("capture", t)) IN
         IF HeardHotword(Lower(t))
         THEN /\ clock < MaxClock
              /\ text' = Lower(t)
              /\ \E ack \in wake_responses :
                   CallSpeak("listen_capture2", ack, "none", heard)
              /\ UNCHANGED <<obj, command, cmd>>
         ELSE /\ command' = None
              /\ text' = <<>>
              /\ stack' = Return
              /\ events' = heard
              /\ UNCHANGED <<obj, cmd, sp_text, sp_emotion>>

\* lines 140-141 raise
listen_command_fail ==
    /\ Top = "listen_capture2"
    /\ \E kind \in ListenFaults : ListenExcept(kind)

\* the user's entry holding the wake-word transcript
ListenHistoryOfText(c) == Append(history, HistoryEntry("user", text, "none"))

\* the history after listen's append of the user's entry
ListenHistory(c) == Append(history, HistoryEntry("user", c, "none"))

\* the wake-word transcript returned as the command
ReturnFirst(first, second) == Some(first)

\* what listen returns after the second transcription
ListenResult(first, second) == Some(second)

\* lines 140-149: the second capture, the user's entry, return command
listen_command ==
    /\ Top = "listen_capture2"
    /\ \E t \in Spoken :
         /\ history' = ListenHistory(Lower(t))
         /\ command' = ListenResult(text, Lower(t))
         /\ events' = Append(events, Event("capture", t))
    /\ clock' = clock + 1
    /\ text' = <<>>
    /\ stack' = Return
    /\ UNCHANGED <<running, rate, volume, weather_api_key, log, cmd, sp_text,
                   sp_emotion>>

(***************************************************************************)
(* process_command and the handlers                                        *)
(***************************************************************************)
Intents == {"Search", "Time", "Weather", "Open", "Exit", "Unknown"}

\* the chain with the test for "time" moved before the test for "search"
ClassifyTimeFirst(c) ==
    IF Contains(c, w_time) THEN "Time"
    ELSE IF Contains(c, w_search) THEN "Search"
    ELSE IF Contains(c, w_weather) THEN "Weather"
    ELSE IF Contains(c, w_open) THEN "Open"
    ELSE IF \E w \in ExitWords : Contains(c, w) THEN "Exit"
    ELSE "Unknown"

\* lines 165-176: the if/elif chain, on the lower-cased, stripped command
Classify(c) ==
    IF Contains(c, w_search) THEN "Search"
    ELSE IF Contains(c, w_time) THEN "Time"
    ELSE IF Contains(c, w_weather) THEN "Weather"
    ELSE IF Contains(c, w_open) THEN "Open"
    ELSE IF \E w \in ExitWords : Contains(c, w) THEN "Exit"
    ELSE "Unknown"

\* the coroutine each intent is dispatched to (Unknown speaks in place)
HandlerOf(intent) ==
    CASE intent = "Search" -> "handle_search"
      [] intent = "Time" -> "handle_time"
      [] intent = "Weather" -> "handle_weather"
      [] intent = "Open" -> "handle_open"
      [] intent = "Exit" -> "shutdown"

\* the command in lower case, its blanks kept
NormalizeNoStrip(c) == Lower(c)

\* command = command.lower().strip()
Normalize(c) == Strip(Lower(c))

\* lines 160-176
process_command ==
    /\ Top = "process_command"
    /\ LET c == Normalize(cmd) IN
       IF ~Truthy(c)
       THEN /\ stack' = Return
            /\ cmd' = c
            /\ UNCHANGED <<obj, text, command, sp_text, sp_emotion, events>>
       ELSE LET intent == Classify(c)
                evs == Append(events, Event("intent", Lit(intent)))
            IN /\ cmd' = c
               /\ IF intent = "Unknown"
                  THEN CallSpeak("process_command_ret",
                                 Lit("I'm not sure how to handle that command."),
                                 "none", evs)
                  ELSE /\ stack' = Call("process_command_ret", HandlerOf(intent))
                       /\ events' = evs
                       /\ UNCHANGED <<sp_text, sp_emotion>>
               /\ UNCHANGED <<obj, text, command>>

\* the exception dropped: the handler returns as if it had finished
RaiseSwallowed == Return

\* an exception leaves a handler: process_command's except clause takes it
RaiseToProcessCommand == [Return EXCEPT ![Len(Return)] = "process_command_except"]

\* lines 178-180
process_command_except ==
    /\ Top = "process_command_except"
    /\ log' = Append(log, "Command processing error")
    /\ CallSpeak("process_command_ret",
                 Lit("Sorry, I encountered an error processing that command."),
                 "none", events)
    /\ UNCHANGED <<running, history, rate, volume, weather_api_key, clock, text,
                   command, cmd>>

\* process_command returns
process_command_return ==
    /\ Top = "process_command_ret"
    /\ stack' = Return
    /\ UNCHANGED <<obj, text, command, cmd, sp_text, sp_emotion, events>>

\* the events of the call, with the entry into handler h
Entered(h) == Append(events, Event("enter", Lit(h)))

\* a handler returns after its speak call
handler_return ==
    /\ Top = "handler_ret"
    /\ stack' = Return
    /\ UNCHANGED <<obj, text, command, cmd, sp_text, sp_emotion, events>>

\* webbrowser.open returns True or False, or raises webbrowser.Error
BrowserResults == {"True", "False"}

\* the remainder with the blanks around it kept
SearchQueryNoStrip(c) == Remove(Remove(c, w_search_for), w_search)

\* query = command.replace("search for", "").replace("search", "").strip()
SearchQuery(c) == Strip(Remove(Remove(c, w_search_for), w_search))

\* lines 184-189
handle_search ==
    /\ Top = "handle_search"
    /\ LET query == SearchQuery(cmd)
           url == Lit("https://www.google.com/search?q=") \o query
       IN IF Truthy(query)
          THEN \/ \E r \in BrowserResults :
                    /\ CallSpeak("handler_ret", Lit("Searching for ") \o query, "none",
                                 Entered("handle_search")
                                   \o <<Event("open_url", url), Event("opened", Lit(r))>>)
                    /\ log' = log
               \/ /\ Len(log) < MaxLog
                  /\ stack' = RaiseToProcessCommand
                  /\ events' = Entered("handle_search")
                                 \o <<Event("open_url", url), Event("raised", Lit("Error"))>>
                  /\ UNCHANGED <<log, sp_text, sp_emotion>>
          ELSE /\ CallSpeak("handler_ret",
                            Lit("What would you like me to search for?"), "none",
                            Entered("handle_search"))
               /\ log' = log
    /\ UNCHANGED <<running, history, rate, volume, weather_api_key, clock, text,
                   command, cmd>>

\* datetime.now().strftime("%I:%M %p"): the clock's reading, as text
FormatTime(now) == Lit(ToString(now))

\* lines 193-194
handle_time ==
    /\ Top = "handle_time"
    /\ clock' = clock + 1
    /\ CallSpeak("handler_ret", Lit("The current time is ") \o FormatTime(clock),
                 "none", Entered("handle_time"))
    /\ UNCHANGED <<running, history, rate, volume, weather_api_key, log, text,
                   command, cmd>>

\* lines 201-203
WeatherLocation(c) ==
    LET location == Strip(Remove(Remove(c, w_weather_in), w_weather))
    IN IF Truthy(location) THEN location ELSE Lit("New York")

\* what session.get and response.json may give: status 200 with the expected
\* body, status 200 with another body, another status, or an I/O error
HttpResults == {"200", "200_malformed", "500", "ClientError"}

\* a handler that asks the provider whether or not a key is configured
KeyAssumed == TRUE

\* if self.config.weather_api_key
HasApiKey == Truthy(weather_api_key)

\* the results on which the try block of handle_weather raises
HttpFaults == {"200_malformed", "ClientError"}

\* every status taken for a success
WeatherReplyAnyStatus(r, location) ==
    Lit("The weather in ") \o location \o Lit(" is ") \o Lit("Sunny")
      \o Lit(" with a temperature of ") \o Lit("20.5")
      \o Lit(" degrees Celsius.")

\* lines 208-219: what is spoken for a result of the request
WeatherReply(r, location) ==
    CASE r = "200" ->
           Lit("The weather in ") \o location \o Lit(" is ") \o Lit("Sunny")
             \o Lit(" with a temperature of ") \o Lit("20.5")
             \o Lit(" degrees Celsius.")
      [] r = "500" ->
           Lit("Sorry, I couldn't get the weather for ") \o location \o Lit(".")
      [] OTHER -> Lit("I couldn't retrieve the weather information.")

\* lines 205-219
handle_weather ==
    /\ Top = "handle_weather"
    /\ LET location == WeatherLocation(cmd)
           got == Append(Entered("handle_weather"), Event("http_get", location))
       IN IF HasApiKey
          THEN \E r \in HttpResults :
                 /\ IF r \in HttpFaults
                    THEN /\ Len(log) < MaxLog
                         /\ log' = Append(log, "Weather error")
                    ELSE log' = log
                 /\ CallSpeak("handler_ret", WeatherReply(r, location), "none",
                              Append(got, Event(IF r \in HttpFaults
                                                THEN "raised" ELSE "http_result",
                                                Lit(r))))
          ELSE /\ CallSpeak("handler_ret", Lit("Weather API key not configured."),
                            "none", Entered("handle_weather"))
               /\ log' = log
    /\ UNCHANGED <<running, history, rate, volume, weather_api_key, clock, text,
                   command, cmd>>

\* os.system returns the command's exit status and does not raise
SystemResults == {"0", "1"}

\* lines 223-235
handle_open ==
    /\ Top = "handle_open"
    /\ IF Contains(cmd, w_browser)
       THEN LET url == Lit("https://www.google.com") IN
            \/ \E r \in BrowserResults :
                 /\ CallSpeak("handler_ret", Lit("Opening web browser"), "none",
                              Entered("handle_open")
                                \o <<Event("open_url", url), Event("opened", Lit(r))>>)
                 /\ log' = log
            \/ /\ Len(log) < MaxLog
               /\ log' = Append(log, "Open app error")
               /\ CallSpeak("handler_ret", Lit("I couldn't open that application."),
                            "none",
                            Entered("handle_open")
                              \o <<Event("open_url", url), Event("raised", Lit("Error"))>>)
       ELSE IF Contains(cmd, w_notepad)
       THEN \E r \in SystemResults :
              /\ CallSpeak("handler_ret", Lit("Opening Notepad"), "none",
                           Append(Entered("handle_open"), Event("os_system", Lit(r))))
              /\ log' = log
       ELSE /\ CallSpeak("handler_ret",
                         Lit("I can only open browser or notepad at the moment."),
                         "none", Entered("handle_open"))
            /\ log' = log
    /\ UNCHANGED <<running, history, rate, volume, weather_api_key, clock, text,
                   command, cmd>>

\* line 239
shutdown ==
    /\ Top = "shutdown"
    /\ CallSpeak("shutdown_set", Lit("Goodbye!"), "none", Entered("shutdown"))
    /\ UNCHANGED <<obj, text, command, cmd>>

\* the assignment skipped when the farewell faulted in the sink
ShutdownUnlessFault == running /\ events[Len(events)].ev = "speak_fault"

\* self.running after shutdown's assignment
ShutdownRunning == FALSE

\* line 240
shutdown_set ==
    /\ Top = "shutdown_set"
    /\ running' = ShutdownRunning
    /\ stack' = Return
    /\ UNCHANGED <<history, rate, volume, weather_api_key, log, clock, text,
                   command, cmd, sp_text, sp_emotion, events>>

(***************************************************************************)
(* run                                                                     *)
(***************************************************************************)
\* line 244
run_greet ==
    /\ Top = "run"
    /\ CallSpeak("run_while",
                 Lit("Hello ") \o name \o Lit(", how can I assist you today?"),
                 "none", events)
    /\ UNCHANGED <<obj, text, command, cmd>>

\* a loop that does not look at self.running
LoopForever == TRUE

\* the test of line 246
LoopTest == running

\* lines 246-248: the loop test, then the call of listen
run_while ==
    /\ Top = "run_while"
    /\ IF LoopTest
       THEN stack' = Call("run_after_listen", "listen")
       ELSE stack' = Goto("done")
    /\ events' = <<>>
    /\ UNCHANGED <<obj, text, command, cmd, sp_text, sp_emotion>>

\* lines 249-250
run_dispatch ==
    /\ Top = "run_after_listen"
    /\ IF command # None /\ Truthy(command[1])
       THEN /\ stack' = Call("run_sleep", "process_command")
            /\ cmd' = command[1]
       ELSE /\ stack' = Goto("run_sleep")
            /\ cmd' = cmd
    /\ events' = <<>>
    /\ UNCHANGED <<obj, text, command, sp_text, sp_emotion>>

\* line 251
run_sleep ==
    /\ Top = "run_sleep"
    /\ stack' = Goto("run_while")
    /\ events' = <<>>
    /\ cmd' = <<>>
    /\ UNCHANGED <<obj, text, command, sp_text, sp_emotion>>

\* an except clause placed around the loop instead of inside it
ExceptLeavesLoop == "done"

\* where run continues after its except clause
AfterExcept == "run_while"

\* lines 252-254
run_except ==
    /\ Top = "run_except"
    /\ log' = Append(log, "Main loop error")
    /\ stack' = Goto(AfterExcept)
    /\ UNCHANGED <<running, history, rate, volume, weather_api_key, clock, text,
                   command, cmd, sp_text, sp_emotion, events>>

(***************************************************************************)
(* Callers that use the object's methods directly, as a test does.         *)
(***************************************************************************)
ApiReady == Top = "api_idle" /\ clock < MaxClock

\* await assistant.speak(t, e)
api_speak ==
    /\ ApiReady
    /\ \E t \in ApiTexts, e \in Emotions :
         /\ stack' = Call("api_returned", "speak")
         /\ sp_text' = t
         /\ sp_emotion' = e
         /\ events' = <<Event("speak", t)>>
    /\ UNCHANGED <<obj, text, command, cmd>>

\* await assistant.process_command(c), on an object that has not spoken yet
api_process_command ==
    /\ Top = "api_idle"
    /\ history = <<>>
    /\ \E c \in Utterances :
         /\ stack' = Call("api_returned", "process_command")
         /\ cmd' = c
         /\ events' = <<>>
    /\ UNCHANGED <<obj, text, command, sp_text, sp_emotion>>

\* the caller has the call's result
api_return ==
    /\ Top = "api_returned"
    /\ stack' = Goto("api_idle")
    /\ events' = <<>>
    /\ cmd' = <<>>
    /\ UNCHANGED <<obj, text, command, sp_text, sp_emotion>>

(***************************************************************************)
(* The specifications.                                                     *)
(***************************************************************************)
SpeakSteps ==
    \/ speak_prepare
    \/ speak_say
    \/ speak_fault

ListenSteps ==
    \/ listen_mic_fault
    \/ listen_wake_fail
    \/ listen_wake
    \/ listen_command_fail
    \/ listen_command

CommandSteps ==
    \/ process_command
    \/ process_command_except
    \/ process_command_return
    \/ handler_return
    \/ handle_search
    \/ handle_time
    \/ handle_weather
    \/ handle_open
    \/ shutdown
    \/ shutdown_set

\* main(): assistant = EchoAI(); await assistant.run()
Init == InitObject /\ stack = <<"run">>

Next ==
    \/ run_greet
    \/ run_while
    \/ run_dispatch
    \/ run_sleep
    \/ run_except
    \/ SpeakSteps
    \/ ListenSteps
    \/ CommandSteps

Spec == Init /\ [][Next]_vars

\* a fresh object whose methods are called directly
ApiInit == InitObject /\ stack = <<"api_idle">>

\* speak called again and again, with any emotion
ApiNext ==
    \/ api_speak
    \/ api_return
    \/ SpeakSteps

ApiSpec == ApiInit /\ [][ApiNext]_vars

\* process_command called with any utterance
DispatchNext ==
    \/ api_process_command
    \/ api_return
    \/ SpeakSteps
    \/ CommandSteps

DispatchSpec == ApiInit /\ [][DispatchNext]_vars

(***************************************************************************)
(* Properties.                                                             *)
(***************************************************************************)
Last(s) == s[Len(s)]

\* the events of kind e of the current call, in order
EventsOf(e) == SelectSeq(events, LAMBDA x : x.ev = e)

\* listen has returned to run, which has not yet looked at the result
ListenReturned == stack = <<"run_after_listen">>

\* C1: in every reachable state the history holds at most max_history
\* entries.
C1_HistoryBounded == Len(history) <= max_history

\* C2: a listen call whose first transcript lacks the wake word does nothing
\* more: no acknowledgement, no second capture, it has returned None, and the
\* step that heard the transcript left the history as it was.
C2_NoWakeWordNoCommand ==
    /\ [](( /\ events # <<>>
            /\ events[1].ev = "capture"
            /\ ~Contains(Lower(events[1].arg), hotword) )
          => /\ Len(events) = 1
             /\ ListenReturned
             /\ command = None)
    /\ [][( /\ Top = "listen"
            /\ events' # <<>>
            /\ events'[1].ev = "capture"
            /\ ~Contains(Lower(events'[1].arg), hotword) )
          => history' = history]_vars

C2_Witness ==
    /\ ListenReturned
    /\ events = <<Event("capture", w_cats)>>
    /\ history # <<>>

\* process_command has returned to run after dispatching an Exit command
ExitProcessed ==
    /\ stack = <<"run_sleep">>
    /\ EventsOf("intent") = <<Event("intent", Lit("Exit"))>>

\* where run is, from shutdown's assignment to the end of the loop
AfterExit ==
    { <<"run_sleep", "process_command_ret">>, <<"run_sleep">>, <<"run_while">>,
      <<"done">> }

\* C3: once an Exit command has been processed running is false; from then
\* on run only finishes the current iteration (no listen call) and ends.
C3_ExitStopsLoop ==
    /\ ExitProcessed => ~running
    /\ ~running => /\ stack \in AfterExit
                   /\ Top # "done" => ENABLED Next

C3_Witness == ~running /\ stack = <<"done">> /\ Len(history) = max_history

\* speak has returned to its direct caller
SpeakReturned == stack = <<"api_returned">> /\ events # <<>>

\* C4: when a speak call with an emotion tag has faulted in the sink, the
\* rate and the volume are back at the baseline when speak returns.
C4_ResetAfterFault ==
    ( /\ SpeakReturned
      /\ Last(events).ev = "speak_fault"
      /\ Last(events).arg \in {Lit("happy"), Lit("sad")} )
    => rate = speech_rate /\ volume = VolumeNeutral

\* C5: after a speak call that completed without a fault the rate and the
\* volume are the baseline; while an utterance is spoken its rate is the
\* configured baseline plus 20 (happy) or minus 20 (sad), whatever the calls
\* before left in the engine.
C5_EmotionFromBaseline ==
    /\ (SpeakReturned /\ Last(events).ev = "spoke")
       => rate = speech_rate /\ volume = VolumeNeutral
    /\ (Top = "speak_say" /\ sp_emotion = "happy")
       => rate = speech_rate + 20 /\ volume = VolumeHappy
    /\ (Top = "speak_say" /\ sp_emotion = "sad")
       => rate = speech_rate - 20 /\ volume = VolumeSad

C5_Witness ==
    /\ Top = "speak_say"
    /\ sp_emotion = "sad"
    /\ rate = speech_rate - 20
    /\ history # <<>>
    /\ Last(history).emotion = "happy"

\* The classifier of the specification: an ordered table of keyword sets
\* and intents, the first row with a keyword in the utterance wins.
IntentTable ==
    << <<{w_search}, "Search", "handle_search">>,
       <<{w_time}, "Time", "handle_time">>,
       <<{w_weather}, "Weather", "handle_weather">>,
       <<{w_open}, "Open", "handle_open">>,
       <<{w_exit, w_quit, w_goodbye}, "Exit", "shutdown">> >>

RowsMatching(c) ==
    {i \in 1..Len(IntentTable) : \E w \in IntentTable[i][1] : Contains(c, w)}

FirstRow(c) == CHOOSE i \in RowsMatching(c) : \A j \in RowsMatching(c) : i <= j

\* process_command has returned to its direct caller
CommandReturned == stack = <<"api_returned">>

\* C6: a non-empty command is dispatched to exactly one intent, the first
\* row of the table that matches; with a matching row exactly its handler is
\* entered, otherwise (Unknown) none; "search" in the command means Search.
C6_FirstMatchWins ==
    (CommandReturned /\ Truthy(cmd))
    => /\ IF RowsMatching(cmd) = {}
          THEN /\ EventsOf("intent") = <<Event("intent", Lit("Unknown"))>>
               /\ EventsOf("enter") = <<>>
          ELSE /\ EventsOf("intent")
                    = <<Event("intent", Lit(IntentTable[FirstRow(cmd)][2]))>>
               /\ EventsOf("enter")
                    = <<Event("enter", Lit(IntentTable[FirstRow(cmd)][3]))>>
       /\ Contains(cmd, w_search)
          => EventsOf("enter") = <<Event("enter", Lit("handle_search"))>>

C6_Witness ==
    /\ CommandReturned
    /\ cmd = Join(w_weather, w_search)
    /\ EventsOf("enter") = <<Event("enter", Lit("handle_search"))>>

\* the labels of run's own frame
RunLabels == {"run", "run_while", "run_after_listen", "run_sleep", "run_except", "done"}

\* C7: a fault in an iteration never ends the loop: run ends only with
\* running false; an exception that leaves listen lands in run's except
\* clause, which logs it, leaves running alone and goes back to the loop
\* test; every step that logs a fault leaves running alone and run alive.
C7_LoopSurvivesFaults ==
    /\ [](stack[1] \in RunLabels /\ (Top = "done" => ~running))
    /\ [][ /\ Top' = "run_except" => (stack' = <<"run_except">> /\ running' = running)
           /\ Top = "run_except"
              => /\ log' = Append(log, "Main loop error")
                 /\ running' = running
                 /\ stack' = <<"run_while">>
           /\ Len(log') > Len(log) => (running' = running /\ Top' # "done")
           /\ (Top = "run_while" /\ running) => Top' = "listen" ]_vars

C7_Witness ==
    /\ Top = "listen"
    /\ running
    /\ log = <<"Main loop error">>

\* C8: the step in which the sink faults logs the fault, returns to speak's
\* caller at its return point and leaves the history as it was.
C8_FaultLeavesHistory ==
    [][ (Top = "speak_say" /\ Last(events').ev = "speak_fault")
        => /\ history' = history
           /\ log' = Append(log, "Speak error")
           /\ stack' = Return ]_vars

C8_Witness ==
    /\ Top = "listen_capture2"
    /\ Last(events).ev = "speak_fault"
    /\ Last(log) = "Speak error"
    /\ Len(history) = 1

\* C9: when listen returns a command, the call made exactly two captures
\* with the acknowledgement between them: capture, speak (one of the wake
\* responses), speak's return, capture; the command is the second transcript
\* lower-cased.  The second capture is awaited only after speak's return.
C9_TwoCaptures ==
    /\ (ListenReturned /\ command # None)
       => /\ Len(events) = 4
          /\ events[1].ev = "capture"
          /\ Contains(Lower(events[1].arg), hotword)
          /\ events[2].ev = "speak"
          /\ events[2].arg \in wake_responses
          /\ events[3].ev \in {"spoke", "speak_fault"}
          /\ events[4].ev = "capture"
          /\ command = Some(Lower(events[4].arg))
    /\ Top = "listen_capture2"
       => /\ Len(events) = 3
          /\ events[1].ev = "capture"
          /\ events[2].ev = "speak"
          /\ events[3].ev \in {"spoke", "speak_fault"}

C9_Witness ==
    /\ ListenReturned
    /\ command = Some(w_time)
    /\ events[1].arg = Join(hotword, w_time)

\* C10: in the capturing phase, a transcription appends one entry
\* (speaker user, the lower-cased transcript) after the entries already
\* there and returns that text; a failed capture or transcription returns
\* None and leaves the history as it was.
C10_CapturingPhase ==
    [][ Top = "listen_capture2"
        => /\ stack' = Return
           /\ IF Last(events').ev = "capture"
              THEN /\ Len(history') = Len(history) + 1
                   /\ SubSeq(history', 1, Len(history)) = history
                   /\ Last(history').speaker = "user"
                   /\ Last(history').text = Lower(Last(events').arg)
                   /\ command' = Some(Lower(Last(events').arg))
              ELSE /\ Last(events').ev = "capture_fault"
                   /\ history' = history
                   /\ command' = None ]_vars

C10_Witness ==
    /\ ListenReturned
    /\ command = Some(w_search_for \o <<" ">> \o w_cats)
    /\ Last(history).speaker = "user"
    /\ Last(history).text = w_search_for \o <<" ">> \o w_cats

\* process_command has returned to run, or to its direct caller, after a
\* command that was not blank
CommandDone ==
    /\ stack \in {<<"run_sleep">>, <<"api_returned">>}
    /\ events # <<>>
    /\ events[1].ev = "intent"

\* a side effect of the call failed: the browser was not launched
\* (webbrowser.open returned False or raised), or the editor command ended
\* with a status other than 0
SideEffectFailed ==
    \E i \in 1..Len(events) :
       \/ events[i] = Event("opened", Lit("False"))
       \/ events[i] = Event("raised", Lit("Error"))
       \/ events[i] = Event("os_system", Lit("1"))

\* the apologies of process_command and handle_open
LaunchApologies ==
    { Lit("Sorry, I encountered an error processing that command."),
      Lit("I couldn't open that application.") }

\* the log lines of process_command's and handle_open's except clauses
LaunchErrors == {"Command processing error", "Open app error"}

\* C11: when a side effect of a handler has failed, process_command has
\* logged the failure and spoken an apology (and has returned normally).
C11_FailuresApologised ==
    (CommandDone /\ SideEffectFailed)
    => /\ \E i \in 1..Len(log) : log[i] \in LaunchErrors
       /\ \E i \in 1..Len(events) :
            events[i].ev = "speak" /\ events[i].arg \in LaunchApologies

\* the call entered handle_weather
WeatherHandled == EventsOf("enter") = <<Event("enter", Lit("handle_weather"))>>

\* C12: a Weather command processed with an empty API key issues no HTTP
\* request, and the one thing spoken is "Weather API key not configured."
C12_NoKeyNoRequest ==
    (CommandDone /\ WeatherHandled /\ weather_api_key = <<>>)
    => /\ EventsOf("http_get") = <<>>
       /\ EventsOf("speak")
            = <<Event("speak", Lit("Weather API key not configured."))>>

C12_Witness ==
    /\ CommandDone
    /\ WeatherHandled
    /\ weather_api_key = <<>>
    /\ cmd = Join(w_weather, w_open)
    /\ Last(events).ev = "spoke"

\* the generic failure messages of handle_weather
WeatherFailures(location) ==
    { Lit("Sorry, I couldn't get the weather for ") \o location \o Lit("."),
      Lit("I couldn't retrieve the weather information.") }

\* C13: a Weather command processed with an API key issues one GET and no
\* more; unless the result is status 200 with the expected body, the one
\* thing spoken is a generic failure message; the fault never reaches
\* process_command's except clause.
C13_OneRequestNoRetry ==
    (WeatherHandled /\ weather_api_key # <<>>)
    => /\ Len(EventsOf("http_get")) = 1
       /\ Top # "process_command_except"
       /\ \A i \in 1..Len(events) :
            events[i].ev = "speak"
            => /\ i = 5
               /\ events[4] # Event("http_result", Lit("200"))
                  => events[5].arg \in WeatherFailures(events[3].arg)
       /\ CommandDone => Len(EventsOf("speak")) = 1

C13_Witness ==
    /\ CommandDone
    /\ WeatherHandled
    /\ events[3] = Event("http_get", w_rio)
    /\ events[4] = Event("raised", Lit("ClientError"))
    /\ events[5].arg = Lit("I couldn't retrieve the weather information.")
    /\ Last(log) = "Weather error"

SearchHandled == EventsOf("enter") = <<Event("enter", Lit("handle_search"))>>

\* utterances dispatched to Search, each with the remainder that is its query
SearchCases ==
    { <<Join(w_search_for, w_cats), w_cats>>,
      <<Join(w_search, w_time), w_time>>,
      <<Join(w_open, w_search), w_open>>,
      <<<<"r", "e">> \o w_search, <<"r", "e">>>>,
      <<w_search_for, <<>>>>,
      <<w_search, <<>>>>,
      <<Join(w_search, w_search), <<>>>> }

SearchUrl(q) == Lit("https://www.google.com/search?q=") \o q

BrowserRaised == \E i \in 1..Len(events) : events[i].ev = "raised"

\* C14: a Search command whose remainder, after "search for" and "search"
\* are taken out and the blanks around it stripped, is non-empty opens a web
\* search for exactly that query, once, and (the browser call having
\* returned) the one thing spoken is "Searching for {query}"; an empty
\* remainder opens nothing and the one thing spoken is the prompt.
C14_SearchHandler ==
    (CommandDone /\ SearchHandled)
    => LET q == SearchQuery(cmd)
       IN /\ \A p \in SearchCases : cmd = p[1] => q = p[2]
          /\ IF q # <<>>
             THEN /\ EventsOf("open_url") = <<Event("open_url", SearchUrl(q))>>
                  /\ ~BrowserRaised
                     => EventsOf("speak")
                          = <<Event("speak", Lit("Searching for ") \o q)>>
             ELSE /\ EventsOf("open_url") = <<>>
                  /\ EventsOf("speak")
                       = <<Event("speak",
                                 Lit("What would you like me to search for?"))>>
                  /\ \A i \in 1..Len(events) :
                       events[i].ev \in {"intent", "enter", "speak", "spoke",
                                         "speak_fault"}

C14_Witness ==
    /\ CommandDone
    /\ SearchHandled
    /\ cmd = Join(w_search_for, w_cats)
    /\ EventsOf("open_url") = <<Event("open_url", SearchUrl(w_cats))>>
    /\ EventsOf("speak") = <<Event("speak", Lit("Searching for ") \o w_cats)>>
    /\ Last(events).ev = "spoke"

\* a text of no characters, or of blanks only
Blank(c) == \A i \in 1..Len(c) : c[i] = " "

\* the run loop has finished its work on what listen returned
BlankCommandDone ==
    /\ stack = <<"run_sleep">>
    /\ command # None
    /\ Blank(command[1])

\* C15: an empty or blank command is a no-op.  process_command called with
\* one returns at once and changes nothing (no intent, no handler, no
\* speech, no log line); when the loop reaches its sleep nothing has
\* happened and running still holds; and the loop goes on to its next test.
C15_BlankIsNoOp ==
    /\ [][ (Top = "process_command" /\ Blank(cmd))
           => /\ stack' = Return
              /\ UNCHANGED <<obj, events, sp_text, sp_emotion>> ]_vars
    /\ [](BlankCommandDone => (events = <<>> /\ running))
    /\ [][ BlankCommandDone => (stack' = <<"run_while">> /\ UNCHANGED obj) ]_vars

C15_Witness ==
    /\ BlankCommandDone
    /\ command = Some(<<" ">>)
    /\ events = <<>>
    /\ running

\* new is old without some of its oldest entries, then one entry e
DropsOldestAppends(old, new, e) ==
    /\ new # <<>>
    /\ Last(new) = e
    /\ \E k \in 0..Len(old) : new = Append(SubSeq(old, k + 1, Len(old)), e)

\* C16: a step that changes the history is the end of a speak call, which
\* appends the assistant's entry for the text spoken and drops oldest
\* entries only, or the end of a listen call, which appends a user entry
\* and drops nothing; classification and the handlers never change it, and
\* the entries that remain are the old ones, unchanged and in their order.
C16_HistoryFrame ==
    [][ history' # history
        => \/ /\ Top = "speak_say"
              /\ DropsOldestAppends(history, history',
                                    [speaker |-> "assistant", text |-> sp_text,
                                     emotion |-> sp_emotion, timestamp |-> clock])
           \/ /\ Top = "listen_capture2"
              /\ history' = Append(history, Last(history'))
              /\ Last(history').speaker = "user"
              /\ command' = Some(Last(history').text) ]_vars

C16_Witness ==
    /\ Len(history) = max_history
    /\ history[max_history].speaker = "assistant"
    /\ history[max_history - 1].speaker = "user"
    /\ CommandDone
    /\ EventsOf("enter") # <<>>
    /\ Last(events).ev = "spoke"

ShutdownEntered == EventsOf("enter") = <<Event("enter", Lit("shutdown"))>>

\* C17: processing an Exit command ends with running false whether the
\* farewell was spoken or faulted in the sink: once speak has returned to
\* shutdown the assignment is the next step or has been made, no except
\* clause is entered, and running is false when process_command is done.
C17_ExitDespiteFault ==
    ShutdownEntered
    => /\ Top \notin {"process_command_except", "run_except"}
       /\ Last(events).ev \in {"spoke", "speak_fault"}
          => (Top = "shutdown_set" \/ ~running)
       /\ CommandDone => ~running

C17_Witness ==
    /\ CommandDone
    /\ ShutdownEntered
    /\ Last(events) = Event("speak_fault", Lit("none"))
    /\ Last(log) = "Speak error"
    /\ ~running

\* the completions of speak calls: spoken, or faulted in the sink
SpeakCompletions ==
    SelectSeq(events, LAMBDA x : x.ev \in {"spoke", "speak_fault"})

\* C18: a command that is non-empty once lower-cased and stripped makes
\* process_command call speak exactly once: never a second call while it
\* runs, and one call, completed, when it has returned, whatever the intent
\* and whether the handler's side effect succeeds, fails or raises.
C18_OneSpeakPerCommand ==
    /\ Len(EventsOf("speak")) <= 1
    /\ Len(SpeakCompletions) <= Len(EventsOf("speak"))
    /\ (CommandReturned /\ Truthy(cmd))
       => /\ Len(EventsOf("intent")) = 1
          /\ Len(EventsOf("speak")) = 1
          /\ Len(SpeakCompletions) = 1

C18_Witness ==
    /\ CommandReturned
    /\ cmd = Join(w_search_for, w_cats)
    /\ BrowserRaised
    /\ EventsOf("speak")
         = <<Event("speak",
                   Lit("Sorry, I encountered an error processing that command."))>>
    /\ Len(SpeakCompletions) = 1

\* the sink has not faulted so far
NoSinkFault == \A i \in 1..Len(log) : log[i] # "Speak error"

\* the step just taken completed a speak call
SpeakCompleted == events # <<>> /\ Last(events).ev = "spoke"

\* C19: as long as the sink has not faulted, the history holds at most
\* max_history entries when a speak call has completed and at most
\* max_history + 1 when a listen call has completed, and never more than
\* that in between, however many iterations the loop has made.
C19_OvershootBounded ==
    NoSinkFault
    => /\ Len(history) <= max_history + 1
       /\ SpeakCompleted => Len(history) <= max_history
       /\ ListenReturned => Len(history) <= max_history + 1

C19_Witness ==
    /\ NoSinkFault
    /\ ListenReturned
    /\ Len(history) = max_history + 1
    /\ Last(history).speaker = "user"
    /\ \E i \in 1..max_history : history[i].speaker = "user"

=============================================================================
